---- MODULE Spec2Model ----
(***************************************************************************)
(* Telegram notification dispatch worker                                   *)
(* (apps/web_app/telegram/notifications.py and __main__.py).               *)
(*                                                                         *)
(* The Redis list TELEGRAM_NOTIFICATION_QUEUE is a sequence whose index 1  *)
(* is the LEFT end of the list: lpush prepends, rpop removes the last      *)
(* element.  The coroutine notifications_broadcasting is a process whose   *)
(* position is pc; every await is a step boundary, so producers calling    *)
(* send_notification interleave with it between any two steps.             *)
(* Time is counted in ticks; one tick is the loop's sleep_time.            *)
(***************************************************************************)
EXTENDS Integers, Sequences, FiniteSets, TLC

\* ---------------------------------------------------------------- bounds
NumIds == 2          \* distinct notification identifiers
MaxEnqueue == 2      \* calls of send_notification in one behaviour
MaxThrottle == 1     \* TelegramRetryAfter answers in one behaviour
MaxRetryAfter == 1   \* largest e.retry_after, in ticks

\* ------------------------------------------------------ program constants
SleepTime == 1       \* sleep_time default (0.05 s), the unit of time

None == "None"
DEFAULT_MESSAGE_TEMPLATE == "Warning. Your health ratio is too low for wallet_id "

\* Identifiers are the byte strings rpop returns; None is Python's None.
Ids == { ToString(i) : i \in 1..NumIds }
WalletOf(id) == << "wallet", id >>
Rows == { << >> } \cup { << [id |-> i, wallet_id |-> WalletOf(i), telegram_id |-> t] >> :
                          i \in Ids, t \in { None, "chat" } }

\* NotificationData tables: an identifier resolves to no row (<< >>), to a
\* row without telegram_id, or to a row with a telegram_id.
Databases == { d \in [Ids -> Rows] : \A i \in Ids : d[i] = << >> \/ d[i][1].id = i }

VARIABLES
    queue,            \* the Redis list, index 1 = left end
    db,               \* NotificationData table: id -> << >> or << row >>
    log,              \* TelegramLog table, in insertion order
    pc,               \* position of notifications_broadcasting
    is_infinity,      \* parameter of the running invocation
    notification_id,  \* local: value returned by the last rpop
    notification,     \* local: << row >> fetched for notification_id, << >> is None
    is_succesfully,   \* local
    text,             \* local: rendered message
    retry_after,      \* e.retry_after of the caught TelegramRetryAfter
    exc,              \* an exception is propagating through finally
    slept,            \* ticks elapsed in the current asyncio.sleep
    \* ---- history, read only by the properties
    pops,             \* rpop calls of this invocation
    popped,           \* identifiers returned by rpop, in order
    pushed,           \* every value pushed, in order (producers and requeues)
    produced,         \* calls of send_notification
    preloaded,        \* queue length when the loop was started
    attempts,         \* send_message calls: <<id, result>>
    iter              \* the current iteration: outcome and effect counters

vars == << queue, db, log, pc, is_infinity, notification_id, notification,
           is_succesfully, text, retry_after, exc, slept,
           pops, popped, pushed, produced, preloaded, attempts, iter >>

locals == << notification_id, notification, is_succesfully, text, retry_after, exc >>
hist == << pops, popped, pushed, produced, preloaded, attempts, iter >>

\* ------------------------------------------------------------ Redis list
\* Variant: RPUSH, the value becomes the rightmost element.
lpush_rpush(list, v) == Append(list, v)

\* LPUSH: the value becomes the leftmost element.
lpush(list, v) == << v >> \o list

\* Variant: LPOP, the leftmost element is removed.
rpop_lpop(list) ==
    IF list = << >> THEN << None, list >> ELSE << Head(list), Tail(list) >>

\* RPOP: << reply, list afterwards >>; the reply is None on an empty list,
\* else the rightmost element, which is removed.
rpop(list) ==
    IF list = << >>
    THEN << None, list >>
    ELSE << list[Len(list)], SubSeq(list, 1, Len(list) - 1) >>

\* The order in which rpop will return the elements of the list.
RECURSIVE Reverse(_)
Reverse(s) == IF s = << >> THEN << >> ELSE Append(Reverse(Tail(s)), Head(s))

PopOrder(list) == Reverse(list)

\* ------------------------------------------------------------- the store
get_object(id) == db[id]

Format(wallet_id) == << DEFAULT_MESSAGE_TEMPLATE, wallet_id >>

TelegramLog(id, msg, ok) ==
    [notification_data_id |-> id, is_succesfully |-> ok, message |-> msg]

\* --------------------------------------------------------------- history
\* outcome: "none", "norecord", "nodest", "ok", "throttle", "error", "unexpected"
\* idle: ticks of the idle sleep that followed the iteration
\* cancelAt: the await at which the task was cancelled, "none" if it was not
\* failure: the queue or store call that raised, "none" if none did
FreshIter == [outcome |-> "none", sends |-> 0, logs |-> 0, pushes |-> 0,
              backoff |-> 0, atTail |-> FALSE, idle |-> 0,
              cancelAt |-> "none", failure |-> "none"]

Throttles == Cardinality({ i \in 1..Len(attempts) : attempts[i][2] = "retry_after" })

Init ==
    /\ queue = << >>
    /\ db \in Databases
    /\ log = << >>
    /\ pc = "init"
    /\ is_infinity = FALSE
    /\ notification_id = None
    /\ notification = << >>
    /\ is_succesfully = FALSE
    /\ text = << >>
    /\ retry_after = 0
    /\ exc = FALSE
    /\ slept = 0
    /\ pops = 0
    /\ popped = << >>
    /\ pushed = << >>
    /\ produced = 0
    /\ preloaded = 0
    /\ attempts = << >>
    /\ iter = FreshIter

\* ------------------------------------------------------------- producers
\* send_notification(notification_id): lpush, no validation of the value.
send_notification(id) ==
    /\ produced < MaxEnqueue
    /\ queue' = lpush(queue, id)
    /\ pushed' = Append(pushed, id)
    /\ produced' = produced + 1
    /\ UNCHANGED << db, log, pc, is_infinity, locals, slept,
                    pops, popped, preloaded, attempts, iter >>

\* ------------------------------------------------------------ entry points
\* bot_start_polling: notifications_broadcasting(is_infinity=True).
bot_start_polling ==
    /\ pc = "init"
    /\ is_infinity' = TRUE
    /\ pc' = "pop"
    /\ preloaded' = Len(queue)
    /\ UNCHANGED << queue, db, log, locals, slept,
                    pops, popped, pushed, produced, attempts, iter >>

\* notifications_broadcasting() with the default is_infinity=False.
single_pass ==
    /\ pc = "init"
    /\ is_infinity' = FALSE
    /\ pc' = "pop"
    /\ preloaded' = Len(queue)
    /\ UNCHANGED << queue, db, log, locals, slept,
                    pops, popped, pushed, produced, attempts, iter >>

\* ------------------------------------------------- notifications_broadcasting
\* Truthiness of the walrus in `while notification_id := await rpop(...)`.
LoopContinues(v) == v # None

\* Variant: the telegram_id test is missing.
Deliverable_Always(row) == TRUE

\* `if notification.telegram_id:`
Deliverable(row) == row.telegram_id # None

\* Variant: the sleep returns at once.
SleepDone_Immediate(elapsed, d) == TRUE

\* asyncio.sleep(d) returns once at least d has elapsed.
SleepDone(elapsed, d) == elapsed >= d

\* Variant: the flag keeps the value of the previous iteration.
ResetFlag_Stale(previous) == previous

\* `is_succesfully = False` at the top of the loop body.
ResetFlag(previous) == FALSE

\* Variant: the skip falls through to the finally block.
ContinueTarget_Finally == "log"

\* Where `continue` resumes: the loop condition.
ContinueTarget == "pop"

\* Variant: the break is missing.
AfterIteration_NoBreak(inf) == "idle"

\* Variant: Continuous mode goes back to the rpop without sleeping.
AfterIteration_NoSleep(inf) == IF ~inf THEN "done" ELSE "pop"

\* Variant: the break is unconditional.
AfterIteration_AlwaysBreak(inf) == "done"

\* `if not is_infinity: break` and the sleep that follows it.
AfterIteration(inf) == IF ~inf THEN "done" ELSE "idle"

\* The loop condition: one rpop; a falsy result ends the function.
rpop_step ==
    /\ pc = "pop"
    /\ LET v == rpop(queue)[1] IN
        /\ queue' = rpop(queue)[2]
        /\ notification_id' = v
        /\ pops' = pops + 1
        /\ iter' = FreshIter
        /\ IF LoopContinues(v)
           THEN pc' = "lookup" /\ popped' = Append(popped, v)
           ELSE pc' = "done" /\ popped' = popped
    /\ UNCHANGED << db, log, is_infinity, notification, is_succesfully, text,
                    retry_after, exc, slept, pushed, produced, preloaded, attempts >>

\* get_object, `continue` on None, else is_succesfully = False and the text.
lookup ==
    /\ pc = "lookup"
    /\ LET found == get_object(notification_id) IN
        /\ notification' = found
        /\ IF found = << >>
           THEN /\ pc' = ContinueTarget
                /\ iter' = [iter EXCEPT !.outcome = "norecord"]
                /\ UNCHANGED << is_succesfully, text >>
           ELSE /\ is_succesfully' = ResetFlag(is_succesfully)
                /\ text' = Format(found[1].wallet_id)
                /\ IF Deliverable(found[1])
                   THEN pc' = "send" /\ iter' = iter
                   ELSE pc' = "log" /\ iter' = [iter EXCEPT !.outcome = "nodest"]
    /\ UNCHANGED << queue, db, log, is_infinity, notification_id, retry_after, exc,
                    slept, pops, popped, pushed, produced, preloaded, attempts >>

\* Variant: a successful send leaves the try statement without the log call.
send_ok_NoLog ==
    /\ pc = "send"
    /\ is_succesfully' = TRUE
    /\ pc' = "check"
    /\ attempts' = Append(attempts, << notification_id, "ok" >>)
    /\ iter' = [iter EXCEPT !.outcome = "ok", !.sends = @ + 1]
    /\ UNCHANGED << queue, db, log, is_infinity, notification_id, notification, text,
                    retry_after, exc, slept, pops, popped, pushed, produced, preloaded >>

\* bot.send_message returned: is_succesfully = True, then finally.
send_ok ==
    /\ pc = "send"
    /\ is_succesfully' = TRUE
    /\ pc' = "log"
    /\ attempts' = Append(attempts, << notification_id, "ok" >>)
    /\ iter' = [iter EXCEPT !.outcome = "ok", !.sends = @ + 1]
    /\ UNCHANGED << queue, db, log, is_infinity, notification_id, notification, text,
                    retry_after, exc, slept, pops, popped, pushed, produced, preloaded >>

\* bot.send_message raised TelegramRetryAfter(retry_after = d): the handler
\* starts asyncio.sleep(e.retry_after).
send_retry_after(d) ==
    /\ pc = "send"
    /\ Throttles < MaxThrottle
    /\ retry_after' = d
    /\ slept' = 0
    /\ pc' = "backoff"
    /\ attempts' = Append(attempts, << notification_id, "retry_after" >>)
    /\ iter' = [iter EXCEPT !.outcome = "throttle", !.sends = @ + 1]
    /\ UNCHANGED << queue, db, log, is_infinity, notification_id, notification,
                    is_succesfully, text, exc, pops, popped, pushed, produced, preloaded >>

\* Variant: no `except TelegramAPIError` clause, the error propagates.
send_api_error_Unhandled ==
    /\ pc = "send"
    /\ exc' = TRUE
    /\ pc' = "log"
    /\ attempts' = Append(attempts, << notification_id, "api_error" >>)
    /\ iter' = [iter EXCEPT !.outcome = "error", !.sends = @ + 1]
    /\ UNCHANGED << queue, db, log, is_infinity, notification_id, notification,
                    is_succesfully, text, retry_after, slept,
                    pops, popped, pushed, produced, preloaded >>

\* bot.send_message raised another TelegramAPIError: `pass`, then finally.
send_api_error ==
    /\ pc = "send"
    /\ pc' = "log"
    /\ attempts' = Append(attempts, << notification_id, "api_error" >>)
    /\ iter' = [iter EXCEPT !.outcome = "error", !.sends = @ + 1]
    /\ UNCHANGED << queue, db, log, is_infinity, notification_id, notification,
                    is_succesfully, text, retry_after, exc, slept,
                    pops, popped, pushed, produced, preloaded >>

\* bot.send_message raised an exception that is no TelegramAPIError: no
\* handler matches, finally runs with the exception pending.
send_other_error ==
    /\ pc = "send"
    /\ exc' = TRUE
    /\ pc' = "log"
    /\ attempts' = Append(attempts, << notification_id, "other" >>)
    /\ iter' = [iter EXCEPT !.outcome = "unexpected", !.sends = @ + 1]
    /\ UNCHANGED << queue, db, log, is_infinity, notification_id, notification,
                    is_succesfully, text, retry_after, slept,
                    pops, popped, pushed, produced, preloaded >>

\* Time passes while the coroutine is suspended in asyncio.sleep.
Tick ==
    /\ \/ pc = "backoff" /\ ~SleepDone(slept, retry_after)
       \/ pc = "idle" /\ ~SleepDone(slept, SleepTime)
    /\ slept' = slept + 1
    /\ UNCHANGED << queue, db, log, pc, is_infinity, locals, hist >>

\* asyncio.sleep(e.retry_after) returns.
backoff_wake ==
    /\ pc = "backoff"
    /\ SleepDone(slept, retry_after)
    /\ pc' = "requeue"
    /\ UNCHANGED << queue, db, log, is_infinity, locals, slept, hist >>

\* Variant: a retry cap, the identifier is given up once it has been
\* throttled MaxThrottle times.
requeue_Capped ==
    /\ pc = "requeue"
    /\ LET again == Cardinality({ i \in 1..Len(attempts) :
                        attempts[i] = << notification_id, "retry_after" >> })
                        < MaxThrottle
       IN  /\ queue' = IF again THEN lpush(queue, notification_id) ELSE queue
           /\ pushed' = IF again THEN Append(pushed, notification_id) ELSE pushed
           /\ iter' = [iter EXCEPT !.pushes = IF again THEN @ + 1 ELSE @,
                                   !.backoff = slept, !.atTail = again]
    /\ pc' = "log"
    /\ UNCHANGED << db, log, is_infinity, locals, slept,
                    pops, popped, produced, preloaded, attempts >>

\* `await redis_client.lpush(TELEGRAM_NOTIFICATION_QUEUE, notification_id)`
requeue ==
    /\ pc = "requeue"
    /\ queue' = lpush(queue, notification_id)
    /\ pushed' = Append(pushed, notification_id)
    /\ iter' = [iter EXCEPT !.pushes = @ + 1, !.backoff = slept,
                            !.atTail = (PopOrder(queue') =
                                        Append(PopOrder(queue), notification_id))]
    /\ pc' = "log"
    /\ UNCHANGED << db, log, is_infinity, locals, slept,
                    pops, popped, produced, preloaded, attempts >>

\* Variant: the log call follows the try statement instead of being its
\* finally block, so a pending exception skips it.
log_send_message_AfterTry ==
    /\ pc = "log"
    /\ log' = IF exc THEN log
              ELSE Append(log, TelegramLog(notification_id, text, is_succesfully))
    /\ iter' = [iter EXCEPT !.logs = IF exc THEN @ ELSE @ + 1]
    /\ pc' = IF exc THEN "raised" ELSE "check"
    /\ UNCHANGED << queue, db, is_infinity, locals, slept,
                    pops, popped, pushed, produced, preloaded, attempts >>

\* finally: _log_send_message(notification_id, text, is_succesfully); a
\* pending exception then leaves the function.
log_send_message ==
    /\ pc = "log"
    /\ log' = Append(log, TelegramLog(notification_id, text, is_succesfully))
    /\ iter' = [iter EXCEPT !.logs = @ + 1]
    /\ pc' = IF exc THEN "raised" ELSE "check"
    /\ UNCHANGED << queue, db, is_infinity, locals, slept,
                    pops, popped, pushed, produced, preloaded, attempts >>

\* `if not is_infinity: break`, else asyncio.sleep(sleep_time) starts.
mode_check ==
    /\ pc = "check"
    /\ pc' = AfterIteration(is_infinity)
    /\ slept' = 0
    /\ UNCHANGED << queue, db, log, is_infinity, locals, hist >>

\* asyncio.sleep(sleep_time) returns: back to the loop condition.
idle_wake ==
    /\ pc = "idle"
    /\ SleepDone(slept, SleepTime)
    /\ pc' = "pop"
    /\ iter' = [iter EXCEPT !.idle = slept]
    /\ UNCHANGED << queue, db, log, is_infinity, locals, slept,
                    pops, popped, pushed, produced, preloaded, attempts >>

Next ==
    \/ \E id \in Ids : send_notification(id)
    \/ bot_start_polling
    \/ single_pass
    \/ rpop_step
    \/ lookup
    \/ send_ok
    \/ \E d \in 1..MaxRetryAfter : send_retry_after(d)
    \/ send_api_error
    \/ send_other_error
    \/ Tick
    \/ backoff_wake
    \/ requeue
    \/ log_send_message
    \/ mode_check
    \/ idle_wake

Spec == Init /\ [][Next]_vars

\* ---------------------------------------------------------------- scheduling
\* The event loop resumes the coroutine whenever the awaited call has
\* completed, and time passes while it sleeps; producers owe nothing.
LoopStep ==
    \/ rpop_step
    \/ lookup
    \/ send_ok
    \/ \E d \in 1..MaxRetryAfter : send_retry_after(d)
    \/ send_api_error
    \/ send_other_error
    \/ Tick
    \/ backoff_wake
    \/ requeue
    \/ log_send_message
    \/ mode_check
    \/ idle_wake

SpecFair == Init /\ [][Next]_vars /\ WF_vars(LoopStep)

\* -------------------------------------------------------------- cancellation
\* The awaits at which the coroutine can be found suspended: rpop (77),
\* send_message (89), asyncio.sleep (96), lpush (98), asyncio.sleep (109).
\* `await _log_send_message(...)` never suspends.
Awaits == { "pop", "send", "backoff", "requeue", "idle" }

\* The awaits inside the try statement (lines 86-104).
InTry == { "send", "backoff", "requeue" }

\* Task.cancel(): CancelledError is raised at the await the coroutine is
\* suspended in.  No except clause catches it; inside the try statement the
\* finally block runs first, elsewhere the coroutine ends at once.  The
\* cancelled Redis or Telegram call is taken not to have had its effect.
cancel ==
    /\ pc \in Awaits
    /\ exc' = TRUE
    /\ pc' = IF pc \in InTry THEN "log" ELSE "raised"
    /\ iter' = [iter EXCEPT !.cancelAt = pc]
    /\ UNCHANGED << queue, db, log, is_infinity, notification_id, notification,
                    is_succesfully, text, retry_after, slept,
                    pops, popped, pushed, produced, preloaded, attempts >>

NextCancel == Next \/ cancel

SpecCancel == Init /\ [][NextCancel]_vars

\* ------------------------------------------------- queue and store failures
\* Variant: the loop catches the failure and carries on.
Unhandled_Swallowed(call) == IF call = "write_to_db" THEN "check" ELSE "pop"

\* No except clause encloses the rpop (77) or get_object (79), and none in
\* the finally block encloses the log write (104): the exception leaves
\* notifications_broadcasting.
Unhandled(call) == "raised"

\* redis_client.rpop raises (connection lost).
rpop_fails ==
    /\ pc = "pop"
    /\ pops' = pops + 1
    /\ exc' = TRUE
    /\ pc' = Unhandled("rpop")
    /\ iter' = [FreshIter EXCEPT !.failure = "rpop"]
    /\ UNCHANGED << queue, db, log, is_infinity, notification_id, notification,
                    is_succesfully, text, retry_after, slept,
                    popped, pushed, produced, preloaded, attempts >>

\* db_connector.get_object raises.
get_object_fails ==
    /\ pc = "lookup"
    /\ exc' = TRUE
    /\ pc' = Unhandled("get_object")
    /\ iter' = [iter EXCEPT !.failure = "get_object"]
    /\ UNCHANGED << queue, db, log, is_infinity, notification_id, notification,
                    is_succesfully, text, retry_after, slept,
                    pops, popped, pushed, produced, preloaded, attempts >>

\* db_connector.write_to_db raises inside _log_send_message: no entry.
write_to_db_fails ==
    /\ pc = "log"
    /\ exc' = TRUE
    /\ pc' = Unhandled("write_to_db")
    /\ iter' = [iter EXCEPT !.failure = "write_to_db"]
    /\ UNCHANGED << queue, db, log, is_infinity, notification_id, notification,
                    is_succesfully, text, retry_after, slept,
                    pops, popped, pushed, produced, preloaded, attempts >>

NextInfra == Next \/ rpop_fails \/ get_object_fails \/ write_to_db_fails

SpecInfra == Init /\ [][NextInfra]_vars

\* ================================================================ properties
Last(s) == s[Len(s)]

NoRecordPops == Cardinality({ i \in 1..Len(popped) : db[popped[i]] = << >> })
ResolvedPops == Cardinality({ i \in 1..Len(popped) : db[popped[i]] # << >> })

\* The entry _log_send_message writes for the current identifier.
EntryFor(ok) == TelegramLog(notification_id, Format(WalletOf(notification_id)), ok)

\* C1 (as stated): a SinglePass invocation performs at most one pop.
C1_SinglePassOnePop == ~is_infinity => pops <= 1

\* C1 (amended): a SinglePass invocation pops at most one identifier that
\* resolves to a record and never enters the idle sleep; every further pop
\* follows the pop of an identifier without a record; an rpop that reports the
\* queue empty ends the invocation at once.
C1_SinglePassAmended ==
    ~is_infinity =>
        /\ ResolvedPops <= 1
        /\ pops <= 1 + NoRecordPops
        /\ pc # "idle"
        /\ (pops > 0 /\ notification_id = None => pc = "done")

\* A SinglePass invocation that skipped an identifier without a record, then
\* popped, logged and returned.
C1_Witness ==
    /\ ~is_infinity
    /\ pc = "done"
    /\ pops = 2
    /\ NoRecordPops = 1
    /\ iter.logs = 1

\* C2: in Continuous mode the loop never returns.
C2_ContinuousNeverReturns == is_infinity => pc # "done"

\* C3: a throttled attempt (delay retry_after) does nothing on the queue
\* while it is suspended, pushes the identifier back at the tail exactly once
\* and only after at least retry_after has elapsed, and writes exactly one
\* entry with success = false.
C3_ThrottleBackoffRequeue ==
    iter.outcome = "throttle" =>
        /\ iter.sends = 1
        /\ retry_after >= 1
        /\ pc \in { "backoff", "requeue" } => iter.pushes = 0 /\ iter.logs = 0
        /\ pc = "requeue" => slept >= retry_after
        /\ pc \notin { "backoff", "requeue" } =>
               /\ iter.pushes = 1
               /\ iter.backoff >= retry_after
               /\ iter.atTail
        /\ pc = "log" => iter.logs = 0 /\ ~is_succesfully
        /\ pc \notin { "backoff", "requeue", "log" } =>
               /\ iter.logs = 1
               /\ Last(log) = EntryFor(FALSE)
               /\ pc \in { "check", "idle", "pop", "done" }

\* A throttled attempt that has slept, requeued and logged.
C3_Witness ==
    /\ iter.outcome = "throttle"
    /\ pc = "check"
    /\ iter.pushes = 1
    /\ iter.backoff >= retry_after
    /\ Len(queue) >= 2

\* The loop holds a resolved identifier: it is in the loop body, or the body
\* has just been left and the next rpop has not been issued.
Attempted ==
    \/ pc \in { "send", "backoff", "requeue", "log", "check", "idle", "raised" }
    \/ pc \in { "pop", "done" } /\ iter.outcome \notin { "none", "norecord" }

IsOk(a) == a[2] = "ok"
IsTrue(e) == e.is_succesfully

\* C4: an identifier that resolves to no record is dropped: no send, no log
\* entry, no push by the loop, and the loop is back at its rpop; log entries,
\* sends and requeues only ever concern identifiers that have a record.
C4_NoRecordSkipped ==
    /\ iter.outcome = "norecord" =>
           /\ pc = "pop"
           /\ db[notification_id] = << >>
           /\ iter.sends = 0 /\ iter.logs = 0 /\ iter.pushes = 0
    /\ \A i \in 1..Len(log) : db[log[i].notification_data_id] # << >>
    /\ \A i \in 1..Len(attempts) : db[attempts[i][1]] # << >>
    /\ Len(pushed) - produced <= Throttles
    /\ Len(queue) + Len(popped) = Len(pushed)

\* Continuous mode logged one identifier, then skipped one without a record.
C4_Witness ==
    /\ iter.outcome = "norecord"
    /\ pc = "pop"
    /\ pops = 2
    /\ Len(log) = 1
    /\ Len(queue) = 0

\* C5: a record without telegram_id is never sent and never pushed back, and
\* gets exactly one log entry, with success = false.
C5_NoDestination ==
    (Attempted /\ notification # << >> /\ notification[1].telegram_id = None) =>
        /\ iter.outcome = "nodest"
        /\ iter.sends = 0 /\ iter.pushes = 0
        /\ ~exc
        /\ pc \in { "log", "check", "idle", "pop", "done" }
        /\ pc = "log" => iter.logs = 0 /\ ~is_succesfully
        /\ pc # "log" => iter.logs = 1 /\ Last(log) = EntryFor(FALSE)

\* A record without telegram_id was logged after an earlier successful send.
C5_Witness ==
    /\ iter.outcome = "nodest"
    /\ pc = "check"
    /\ Len(log) = 2
    /\ log[1].is_succesfully
    /\ ~log[2].is_succesfully

\* C6: a successful send gets exactly one log entry, with success = true,
\* and is not pushed back; the entries with success = true are, in order,
\* exactly those of the sends that returned.
C6_SuccessLogged ==
    /\ iter.outcome = "ok" =>
           /\ iter.sends = 1 /\ iter.pushes = 0
           /\ ~exc
           /\ pc \in { "log", "check", "idle", "pop", "done" }
           /\ pc = "log" => iter.logs = 0 /\ is_succesfully
           /\ pc # "log" => iter.logs = 1 /\ Last(log) = EntryFor(TRUE)
    /\ LET ok == SelectSeq(attempts, IsOk)
           tr == SelectSeq(log, IsTrue)
           pending == IF pc = "log" /\ iter.outcome = "ok" THEN 1 ELSE 0
       IN  /\ Len(tr) = Len(ok) - pending
           /\ \A i \in 1..Len(tr) : tr[i].notification_data_id = ok[i][1]

\* A successful send was logged after an earlier failed attempt.
C6_Witness ==
    /\ iter.outcome = "ok"
    /\ pc = "check"
    /\ Len(log) = 2
    /\ ~log[1].is_succesfully
    /\ log[2].is_succesfully

\* C7: a TelegramAPIError other than RetryAfter is swallowed: one log entry
\* with success = false, no push, no exception leaves the loop, and in
\* Continuous mode the loop goes on to its next rpop.
C7_PermanentErrorSwallowed ==
    iter.outcome = "error" =>
        /\ iter.sends = 1 /\ iter.pushes = 0
        /\ ~exc /\ ~is_succesfully
        /\ pc \in { "log", "check", "idle", "pop" } \cup
                  (IF is_infinity THEN { } ELSE { "done" })
        /\ pc = "log" => iter.logs = 0
        /\ pc # "log" => iter.logs = 1 /\ Last(log) = EntryFor(FALSE)

\* Continuous mode is back at its rpop after a failed send, with work left.
C7_Witness ==
    /\ iter.outcome = "error"
    /\ is_infinity
    /\ pc = "pop"
    /\ iter.logs = 1
    /\ Len(queue) = 1

\* The run C8 is about, at its end.
C8_Case ==
    /\ pc = "done"
    /\ is_infinity
    /\ produced = preloaded
    /\ \A i \in 1..preloaded :
           db[pushed[i]] # << >> /\ db[pushed[i]][1].telegram_id # None
    /\ \A i \in 1..Len(attempts) : attempts[i][2] = "ok"

\* C8: Continuous mode, N identifiers pre-loaded, all deliverable, all sends
\* successful, no producer afterwards: when the loop has ended the log holds
\* exactly N entries with success = true, in queue order, and the queue is
\* empty.
C8_DrainsPreloaded ==
    C8_Case
    => /\ queue = << >>
       /\ log = [i \in 1..preloaded |->
                    TelegramLog(pushed[i], Format(WalletOf(pushed[i])), TRUE)]

\* Two distinct deliverable identifiers were pre-loaded, sent and logged.
C8_Witness ==
    /\ C8_Case
    /\ preloaded = 2
    /\ pushed[1] # pushed[2]
    /\ Len(log) = 2
    /\ log[1].is_succesfully /\ log[2].is_succesfully

\* The run C9 is about, at its end: [A, B] pre-loaded, no producer afterwards,
\* A without telegram_id, B throttled k >= 1 times and then sent.
C9_Case ==
    LET k == Len(attempts) - 1 IN
    /\ pc = "done"
    /\ is_infinity
    /\ preloaded = 2 /\ produced = 2
    /\ db[pushed[1]] # << >> /\ db[pushed[1]][1].telegram_id = None
    /\ db[pushed[2]] # << >> /\ db[pushed[2]][1].telegram_id # None
    /\ k >= 1
    /\ attempts = [i \in 1..(k + 1) |->
                      << pushed[2], IF i <= k THEN "retry_after" ELSE "ok" >>]

\* C9: Continuous mode on [A, B], A without telegram_id, B throttled k >= 1
\* times and then sent: the log is A false, then k times B false, then B
\* true, and the queue ends empty.
C9_ThrottleThenSuccess ==
    LET k == Len(attempts) - 1 IN
    C9_Case
    => /\ queue = << >>
       /\ log = << TelegramLog(pushed[1], Format(WalletOf(pushed[1])), FALSE) >> \o
                [i \in 1..(k + 1) |->
                    TelegramLog(pushed[2], Format(WalletOf(pushed[2])), i > k)]

\* The scenario [A, B] ran to its end: three log entries, B's second is true.
C9_Witness ==
    /\ C9_Case
    /\ Throttles = 1
    /\ Len(log) = 3
    /\ log[1].notification_data_id = pushed[1]
    /\ ~log[1].is_succesfully /\ ~log[2].is_succesfully /\ log[3].is_succesfully
    /\ queue = << >>

\* C10: the queue is FIFO: the values pushed so far (by send_notification and
\* by requeues, in that order) are the values popped so far followed by the
\* queue's content in pop order.
C10_Fifo == pushed = popped \o PopOrder(queue)

\* An identifier was requeued behind one that has no record (enqueued
\* unvalidated) and came back only after it.
C10_Witness ==
    /\ Len(popped) = 3
    /\ Throttles = 1
    /\ popped[1] = popped[3]
    /\ popped[2] # popped[1]
    /\ db[popped[2]] = << >>

\* C11: in Continuous mode no failure of a send (throttle, TelegramAPIError
\* or any other exception) ends the loop.
C11_DeliveryFailureNeverTerminates ==
    (is_infinity /\ iter.outcome \in { "throttle", "error", "unexpected" }) =>
        pc \notin { "raised", "done" }

\* Ids of the popped identifiers that have a record, in pop order.
HasRecord(id) == db[id] # << >>
ResolvedIds == SelectSeq(popped, HasRecord)

\* The loop has popped an identifier and not yet finished the lookup, or has
\* resolved it and not yet written its log entry.
Unlogged == IF pc \in { "send", "backoff", "requeue", "log" } THEN 1 ELSE 0
Unresolved == IF pc = "lookup" /\ HasRecord(notification_id) THEN 1 ELSE 0

\* C12: every popped identifier that has a record gets one log entry per pop,
\* carrying the identifier, the rendered text and the flag, also when
\* send_message raised an unexpected exception (the entry is written before
\* the exception leaves the loop); identifiers without a record get none.
C12_EveryResolvedAttemptLogged ==
    /\ Len(log) = Len(ResolvedIds) - Unlogged - Unresolved
    /\ \A i \in 1..Len(log) :
           /\ log[i].notification_data_id = ResolvedIds[i]
           /\ log[i].message = Format(WalletOf(ResolvedIds[i]))
           /\ log[i].is_succesfully \in BOOLEAN
    /\ iter.outcome = "unexpected" =>
           /\ pc \in { "log", "raised" }
           /\ pc = "raised" => iter.logs = 1 /\ Last(log) = EntryFor(FALSE)

\* An unexpected exception left the loop after its log entry was written,
\* and an identifier without a record had been skipped before.
C12_Witness ==
    /\ pc = "raised"
    /\ iter.outcome = "unexpected"
    /\ iter.logs = 1
    /\ Len(popped) = 2
    /\ Len(log) = 1

\* C13: in Continuous mode a cancellation takes effect only at the rpop at
\* the top of an iteration or during one of the two sleeps.
C13_CancelOnlyAtTopOrInSleep ==
    (is_infinity /\ iter.cancelAt # "none") =>
        iter.cancelAt \in { "pop", "backoff", "idle" }

\* C14: in Continuous mode a requeued identifier is popped again.
C14_ThrottledPoppedAgain ==
    \A id \in Ids :
        (is_infinity /\ iter.outcome = "throttle" /\ pc = "log"
                     /\ iter.pushes = 1 /\ notification_id = id)
        ~> (pc = "lookup" /\ notification_id = id)

\* The values of the Redis list.
InQueue(id) == \E i \in 1..Len(queue) : queue[i] = id

\* C15: an exception of rpop, of get_object or of the log write leaves the
\* loop (it is not swallowed and the run ends); a failed log write adds no
\* entry, and after a throttle the identifier it concerns is already back on
\* the queue.
C15_InfrastructureFailurePropagates ==
    iter.failure # "none" =>
        /\ pc = "raised"
        /\ exc
        /\ iter.failure = "rpop" => iter.sends = 0 /\ iter.logs = 0
        /\ iter.failure = "get_object" => iter.sends = 0 /\ iter.logs = 0
        /\ iter.failure = "write_to_db" =>
               /\ iter.logs = 0
               /\ iter.outcome = "throttle" =>
                      iter.pushes = 1 /\ InQueue(notification_id)

\* The log write failed after a throttled identifier had been requeued.
C15_Witness ==
    /\ iter.failure = "write_to_db"
    /\ iter.outcome = "throttle"
    /\ pc = "raised"
    /\ InQueue(notification_id)
    /\ log = << >>

\* C16: one identifier at a time: whenever the loop issues an rpop, and
\* whenever it starts a send, every identifier it resolved before has its log
\* entry; an iteration sends at most once and no send starts before the
\* previous one was logged.
C16_OneAtATime ==
    /\ pc \in { "pop", "check", "idle", "done" } => Len(log) = Len(ResolvedIds)
    /\ pc = "lookup" => Len(log) = Len(ResolvedIds) - Unresolved
    /\ pc \in { "send", "backoff", "requeue", "log" } =>
           Len(log) = Len(ResolvedIds) - 1
    /\ iter.sends <= 1
    /\ Len(attempts) <= Len(log) + 1
    /\ pc = "send" => Len(attempts) <= Len(log)

\* The second identifier was popped with the first one's entry written.
C16_Witness ==
    /\ pc = "send"
    /\ Len(popped) = 2
    /\ Len(attempts) = 1
    /\ Len(log) = 1
    /\ log[1].notification_data_id = popped[1]

\* C17 (as stated): in Continuous mode every rpop that follows an iteration
\* which popped an identifier comes after an idle sleep of sleep_time.
C17_SleepAfterEveryIteration ==
    (is_infinity /\ pc = "pop" /\ Len(popped) >= 1) => iter.idle >= SleepTime

\* C17 (amended): it does after a success, a record without telegram_id, a
\* throttle and a TelegramAPIError; after an identifier without a record the
\* next rpop follows without any sleep.
C17_SleepUnlessNoRecord ==
    (is_infinity /\ pc = "pop" /\ Len(popped) >= 1) =>
        IF iter.outcome = "norecord"
        THEN iter.idle = 0
        ELSE /\ iter.outcome \in { "ok", "nodest", "throttle", "error" }
             /\ iter.idle >= SleepTime

\* Continuous mode is back at its rpop after a throttled iteration and the
\* idle sleep.
C17_Witness ==
    /\ is_infinity
    /\ pc = "pop"
    /\ iter.outcome = "throttle"
    /\ iter.idle >= SleepTime

\* Log entries with success = false of an identifier.
FalseLogs(id) ==
    Cardinality({ i \in 1..Len(log) :
        log[i].notification_data_id = id /\ ~log[i].is_succesfully })

ThrottlesOf(id) ==
    Cardinality({ i \in 1..Len(attempts) : attempts[i] = << id, "retry_after" >> })

C19_ThrottledNeverLost ==
    iter.outcome = "throttle" =>
        \/ pc \in { "backoff", "requeue" }
        \/ iter.pushes = 1 /\ InQueue(notification_id)

\* C20: every value pushed while a Continuous loop runs is eventually popped,
\* and pushes equal pops plus the queue length.
C20_EveryEnqueuedPopped ==
    /\ [](Len(pushed) = Len(popped) + Len(queue))
    /\ \A n \in 1..(MaxEnqueue + MaxThrottle) :
           (is_infinity /\ Len(pushed) >= n) ~> (Len(popped) >= n)

====
